---- MODULE Spec2Model ----
(***************************************************************************)
(* Frontend coordination layer of lark (lark/parser_frontends.py): the six *)
(* frontends, their constructors, their parse methods and ENGINE_DICT.     *)
(* The lexers, the post-lex stage and the parsing engines are the          *)
(* collaborators the frontends drive; they are modelled at their interface.*)
(***************************************************************************)
EXTENDS Integers, Sequences, FiniteSets, TLC

VARIABLES
    lexer_conf,          \* LexerConf: tokens, ignore, postlex
    parser_conf,         \* ParserConf: rules, start
    registry,            \* the module-level ENGINE_DICT
    lookup,              \* outcome of the last registry lookup
    self,                \* the frontend instance's attributes
    ctor,                \* position inside __init__ and its error
    engines,             \* number of parsing engines constructed so far
    calls,               \* per thread: the parse call in flight
    lexer_parser_state,  \* ContextualLexer.parser_state (instance field)
    state_setter,        \* thread that last called set_parser_state
    last_scan            \* the most recent scan of the contextual lexer

vars == <<lexer_conf, parser_conf, registry, lookup, self, ctor, engines,
          calls, lexer_parser_state, state_setter, last_scan>>

(***************************** bounds **************************************)
MaxRhs == 2        \* longest right-hand side drawn for rule translation
MaxRules == 1      \* most rules drawn for rule translation
MaxLen == 2        \* longest input text
NThreads == 2      \* threads that may call parse
MaxDepth == 4      \* derivation depth explored by the chart engine

MAXREPEAT == 65535

(************************* Python values ***********************************)
PyNone == [t |-> "none", s |-> "", items |-> <<>>]
PyStr(x) == [t |-> "str", s |-> x, items |-> <<>>]
PyTuple(xs) == [t |-> "tuple", s |-> "", items |-> xs]
PyCallable(a) == [t |-> "callable", s |-> a, items |-> <<>>]
PyRegex(r) == [t |-> "regex", s |-> r, items |-> <<>>]
PyRegexMatch(r) == [t |-> "regex.match", s |-> r, items |-> <<>>]

Min(a, b) == IF a <= b THEN a ELSE b
Max(a, b) == IF a >= b THEN a ELSE b

(************************* regular expressions *****************************)
Item(op, lo, hi, av, chars) ==
    [op |-> op, lo |-> lo, hi |-> hi, av |-> av, chars |-> chars]
Lit(c) == Item("LITERAL", 1, 1, <<>>, {c})
In(cs) == Item("IN", 1, 1, <<>>, cs)
AnyChar == Item("ANY", 1, 1, <<>>, {})
Repeat(lo, hi, p) == Item("MAX_REPEAT", lo, hi, <<p>>, {})
Branch(ps) == Item("BRANCH", 0, 0, ps, {})
Group(p) == Item("SUBPATTERN", 0, 0, <<p>>, {})
At == Item("AT", 0, 0, <<>>, {})

Regexps == {"a", "[ab]", ".", "", "ab", "a?", "a*", "a+", "a|bc", "(a)", "^a", "a{2}"}

\* sre_parse.parse on the regular expressions used by the grammars
sre_parse_parse(regexp) ==
    CASE regexp = "a"    -> <<Lit("a")>>
      [] regexp = "b"    -> <<Lit("b")>>
      [] regexp = " "    -> <<Lit(" ")>>
      [] regexp = "[ab]" -> <<In({"a", "b"})>>
      [] regexp = "."    -> <<AnyChar>>
      [] regexp = ""     -> <<>>
      [] regexp = "ab"   -> <<Lit("a"), Lit("b")>>
      [] regexp = "a?"   -> <<Repeat(0, 1, <<Lit("a")>>)>>
      [] regexp = "a*"   -> <<Repeat(0, MAXREPEAT, <<Lit("a")>>)>>
      [] regexp = "a+"   -> <<Repeat(1, MAXREPEAT, <<Lit("a")>>)>>
      [] regexp = "b+"   -> <<Repeat(1, MAXREPEAT, <<Lit("b")>>)>>
      [] regexp = "a|bc" -> <<Branch(<< <<Lit("a")>>, <<Lit("b"), Lit("c")>> >>)>>
      [] regexp = "(a)"  -> <<Group(<<Lit("a")>>)>>
      [] regexp = "^a"   -> <<At, Lit("a")>>
      [] regexp = "a{2}" -> <<Repeat(2, 2, <<Lit("a")>>)>>

SatMul(a, b) ==
    IF a = 0 \/ b = 0 THEN 0
    ELSE IF a > MAXREPEAT \div b THEN MAXREPEAT ELSE a * b

\* SubPattern.getwidth: (minimum, maximum) match length
RECURSIVE getwidth(_)
RECURSIVE SumWidth(_, _)
RECURSIVE BranchWidth(_, _)
BranchWidth(alts, k) ==
    IF k > Len(alts) THEN <<MAXREPEAT, 0>>
    ELSE LET w == getwidth(alts[k])
             r == BranchWidth(alts, k + 1)
         IN  <<Min(w[1], r[1]), Max(w[2], r[2])>>
SumWidth(p, k) ==
    IF k > Len(p) THEN <<0, 0>>
    ELSE LET it == p[k]
             r == SumWidth(p, k + 1)
             w == CASE it.op \in {"LITERAL", "IN", "ANY"} -> <<1, 1>>
                    [] it.op = "BRANCH" -> BranchWidth(it.av, 1)
                    [] it.op = "SUBPATTERN" -> getwidth(it.av[1])
                    [] it.op = "MAX_REPEAT" ->
                         LET s == getwidth(it.av[1])
                         IN  <<SatMul(s[1], it.lo), SatMul(s[2], it.hi)>>
                    [] OTHER -> <<0, 0>>
         IN  <<Min(w[1] + r[1], MAXREPEAT), Min(w[2] + r[2], MAXREPEAT)>>
getwidth(p) ==
    LET w == SumWidth(p, 1)
    IN  <<Min(w[1], MAXREPEAT - 1), Min(w[2], MAXREPEAT)>>

\* does a width-1 regular expression match the character ch
RECURSIVE PatMatches1(_, _)
PatMatches1(p, ch) ==
    \E k \in 1..Len(p) :
        /\ \A j \in 1..Len(p) : j # k => p[j].op = "AT"
        /\ CASE p[k].op \in {"LITERAL", "IN"} -> ch \in p[k].chars
             [] p[k].op = "ANY" -> TRUE
             [] p[k].op = "SUBPATTERN" -> PatMatches1(p[k].av[1], ch)
             [] p[k].op = "BRANCH" ->
                  \E a \in 1..Len(p[k].av) : PatMatches1(p[k].av[a], ch)
             [] OTHER -> FALSE
CharMatches(regexp, ch) == PatMatches1(sre_parse_parse(regexp), ch)

(************************* grammar symbols *********************************)
TerminalNames == {"A", "B", "K", "N", "WS"}
is_terminal(sym) == sym \in TerminalNames

RuleOf(n, x, a) == [name |-> n, expansion |-> x, action |-> a]
TokenDef(n, r) == [name |-> n, regexp |-> r]

\* the terminals occurring in some rule's right-hand side
UsedTerminals(rules) ==
    UNION {{rules[i].expansion[j] : j \in {k \in 1..Len(rules[i].expansion) :
                                           is_terminal(rules[i].expansion[k])}} :
           i \in 1..Len(rules)}

\* {t.name: t for t in lexer_conf.tokens}, kept as name -> regexp
TokenByName(tokens) ==
    [n \in {tokens[i].name : i \in 1..Len(tokens)} |->
        tokens[CHOOSE i \in 1..Len(tokens) :
                  /\ tokens[i].name = n
                  /\ \A j \in 1..Len(tokens) : tokens[j].name = n => j <= i].regexp]

(************************* configurations **********************************)
BSeq(S, n) == UNION {[1..k -> S] : k \in 0..n}

ExpansionSymbols == {"A", "B", "e"}
RuleNameAt(i) == IF i = 1 THEN "s" ELSE "e"
ActionAt(i) == IF i = 1 THEN "f" ELSE "g"
RuleLists ==
    UNION {{[i \in 1..k |-> RuleOf(RuleNameAt(i), xs[i], ActionAt(i))] :
                xs \in [1..k -> BSeq(ExpansionSymbols, MaxRhs)]} :
           k \in 1..MaxRules}

BuildLexerConfs ==
    {[tokens |-> <<TokenDef("A", ra), TokenDef("B", rb)>>,
      ignore |-> {}, postlex |-> "none"] :
        ra \in Regexps, rb \in {"b", "b+"}}
BuildParserConfs == {[rules |-> rs, start |-> "s"] : rs \in RuleLists}

\* keyword K = 'a' against the general N = [ab]
KeywordTokens == <<TokenDef("K", "a"), TokenDef("N", "[ab]")>>
\* the same with a separator token, which the "filter" post-lex stage drops
SeparatedTokens == KeywordTokens \o <<TokenDef("WS", " ")>>
\* stmt: K N | N
KeywordRules == <<RuleOf("stmt", <<"K", "N">>, "kn"), RuleOf("stmt", <<"N">>, "n")>>
\* s: p | q ; p: K ; q: K | N   (two derivations of the token K)
AmbiguousRules == <<RuleOf("s", <<"p">>, "sp"), RuleOf("s", <<"q">>, "sq"),
                    RuleOf("p", <<"K">>, "pk"), RuleOf("q", <<"K">>, "qk"),
                    RuleOf("q", <<"N">>, "qn")>>
PostLexKinds == {"none", "filter", "insert"}
ParseLexerConfs ==
    {[tokens |-> IF p = "filter" THEN SeparatedTokens ELSE KeywordTokens,
      ignore |-> {}, postlex |-> p] : p \in PostLexKinds}
ParseParserConfs == {[rules |-> KeywordRules, start |-> "stmt"],
                     [rules |-> AmbiguousRules, start |-> "s"]}

(************************* collaborators: construction *********************)
NoEngine == [engine |-> "none", rules |-> <<>>, start |-> "", states_idx |-> <<>>]
NoLexer == [kind |-> "none", tokens |-> <<>>, ignore |-> {}, d |-> <<>>,
            always_accept |-> {}]
Unbuilt == [cls |-> "none", lexer |-> NoLexer, parser |-> NoEngine,
            has_token_by_name |-> FALSE, token_by_name |-> <<>>]

Shift(n) == [act |-> "shift", arg |-> n, size |-> 0]
Reduce(r, k) == [act |-> "reduce", arg |-> r, size |-> k]
Accept == [act |-> "accept", arg |-> 0, size |-> 0]

\* the LALR(1) automaton of stmt: K N | N ; state 1 is the initial state
KeywordStates ==
    << ("K" :> Shift(2)) @@ ("N" :> Shift(3)) @@ ("stmt" :> Shift(4)),
       ("N" :> Shift(5)),
       ("$end" :> Reduce(2, 1)),
       ("$end" :> Accept),
       ("$end" :> Reduce(1, 2)) >>
init_state_idx == 1

\* lalr_parser.Parser(parser_conf): the analysis, or a grammar conflict
lalr_parser_Parser(pconf) ==
    IF pconf.rules = KeywordRules
    THEN [error |-> "",
          parser |-> [engine |-> "lalr_parser", rules |-> pconf.rules,
                      start |-> pconf.start, states_idx |-> KeywordStates]]
    ELSE [error |-> "GrammarError", parser |-> NoEngine]

\* earley.Parser(ParserConf(rules, callback, start))
earley_Parser(rules, start) ==
    [engine |-> "earley", rules |-> rules, start |-> start, states_idx |-> <<>>]
\* nearley.Parser(rules, start)
nearley_Parser(rules, start) ==
    [engine |-> "nearley", rules |-> rules, start |-> start, states_idx |-> <<>>]

\* Lexer(tokens, ignore=ignore)
Lexer(tokens, ignore) ==
    [kind |-> "Lexer", tokens |-> tokens, ignore |-> ignore, d |-> <<>>,
     always_accept |-> {}]
\* ContextualLexer(tokens, d, ignore=ignore, always_accept=always_accept)
ContextualLexer(tokens, d, ignore, always_accept) ==
    [kind |-> "ContextualLexer", tokens |-> tokens, ignore |-> ignore, d |-> d,
     always_accept |-> always_accept]

\* postlex.always_accept
postlex_always_accept(postlex) == IF postlex = "filter" THEN {"WS"} ELSE {}

(************************* the frontends: construction *********************)
Classes == {"LALR", "LALR_ContextualLexer", "Nearley", "Earley",
            "Nearley_NoLex", "Earley_NoLex"}
ChartClasses == {"Nearley", "Earley", "Nearley_NoLex", "Earley_NoLex"}
NoLexClasses == {"Nearley_NoLex", "Earley_NoLex"}
WithLexerClasses == {"LALR", "Nearley", "Earley"}

ENGINE_DICT_Swapped ==
    [lalr |-> "LALR_ContextualLexer", earley |-> "Earley_NoLex",
     earley_nolex |-> "Earley", lalr_contextual_lexer |-> "LALR"]
ENGINE_DICT ==
    [lalr |-> "LALR", earley |-> "Earley", earley_nolex |-> "Earley_NoLex",
     lalr_contextual_lexer |-> "LALR_ContextualLexer"]

\* the statements of each __init__, in order
CtorOrder(cls) ==
    CASE cls = "LALR" -> <<"lexer", "parser">>
      [] cls = "LALR_ContextualLexer" -> <<"parser", "lexer">>
      [] cls \in {"Nearley", "Earley"} -> <<"lexer", "rules", "parser">>
      [] cls \in NoLexClasses -> <<"token_by_name", "rules", "parser">>

\* d = {idx: t.keys() for idx, t in self.parser.analysis.states_idx.items()}
StatesToAccepts_DropLast(states_idx) ==
    [idx \in 1..(Len(states_idx) - 1) |-> DOMAIN states_idx[idx]]
StatesToAccepts(states_idx) ==
    [idx \in 1..Len(states_idx) |-> DOMAIN states_idx[idx]]

WidthOk_MinimumOnly(width) == width[1] = 1
WidthOk(width) == width = <<1, 1>>

Earley_prepare_expansion_WrapAll(expansion) ==
    [j \in 1..Len(expansion) |-> PyTuple(<<PyStr(expansion[j])>>)]
\* Earley._prepare_expansion
Earley_prepare_expansion(expansion) ==
    [j \in 1..Len(expansion) |->
        IF is_terminal(expansion[j]) THEN PyTuple(<<PyStr(expansion[j])>>)
        ELSE PyStr(expansion[j])]

\* Nearley._prepare_expansion
Nearley_prepare_expansion(expansion) ==
    [j \in 1..Len(expansion) |->
        IF is_terminal(expansion[j]) THEN PyTuple(<<PyStr(expansion[j]), PyNone>>)
        ELSE PyStr(expansion[j])]

\* the error raised while the scannerless generator yields symbol j, or ""
NoLexSymbolError(tbn, sym) ==
    IF ~is_terminal(sym) THEN ""
    ELSE IF sym \notin DOMAIN tbn THEN "KeyError"
    ELSE IF ~WidthOk(getwidth(sre_parse_parse(tbn[sym]))) THEN "GrammarError"
    ELSE ""

\* Earley_NoLex._prepare_expansion / Nearley_NoLex._prepare_expansion,
\* consumed by list(): the symbols, or the first error raised
NoLex_prepare_expansion(cls, tbn, expansion) ==
    LET bad == {j \in 1..Len(expansion) : NoLexSymbolError(tbn, expansion[j]) # ""}
    IN  IF bad # {}
        THEN [error |-> NoLexSymbolError(tbn, expansion[CHOOSE j \in bad :
                                                \A k \in bad : j <= k]),
              symbols |-> <<>>]
        ELSE [error |-> "",
              symbols |->
                [j \in 1..Len(expansion) |->
                    IF ~is_terminal(expansion[j]) THEN PyStr(expansion[j])
                    ELSE IF cls = "Earley_NoLex"
                    THEN PyTuple(<<PyRegexMatch(tbn[expansion[j]])>>)
                    ELSE PyTuple(<<PyStr(expansion[j]), PyRegex(tbn[expansion[j]])>>)]]

Prepared(shape, n, syms, a) ==
    [shape |-> shape, name |-> n, symbols |-> syms, action |-> a]

\* the list comprehension building `rules` in each chart frontend's __init__
PrepareRules(cls, tbn, rules) ==
    LET one(i) ==
            CASE cls = "Earley" ->
                   [error |-> "", symbols |-> Earley_prepare_expansion(rules[i].expansion)]
              [] cls = "Nearley" ->
                   [error |-> "", symbols |-> Nearley_prepare_expansion(rules[i].expansion)]
              [] OTHER -> NoLex_prepare_expansion(cls, tbn, rules[i].expansion)
        bad == {i \in 1..Len(rules) : one(i).error # ""}
    IN  IF bad # {}
        THEN [error |-> one(CHOOSE i \in bad : \A k \in bad : i <= k).error,
              rules |-> <<>>]
        ELSE [error |-> "",
              rules |->
                [i \in 1..Len(rules) |->
                    IF cls \in {"Earley", "Earley_NoLex"}
                    THEN Prepared("tuple", rules[i].name, one(i).symbols,
                                  PyStr(rules[i].action))
                    ELSE Prepared("dict", rules[i].name, one(i).symbols,
                                  PyCallable(rules[i].action))]]

NoCtor == [pc |-> "none", step |-> 0, rules |-> <<>>, error |-> ""]
NoLookup == [identifier |-> "", cls |-> "none", error |-> ""]

CtorAt(stmt) ==
    /\ ctor.pc = "run"
    /\ CtorOrder(self.cls)[ctor.step] = stmt
CtorAdvance(c) ==
    IF c.step = Len(CtorOrder(self.cls))
    THEN [c EXCEPT !.pc = "done"]
    ELSE [c EXCEPT !.step = c.step + 1]
CtorRaise(c, e) == [c EXCEPT !.pc = "failed", !.error = e]

NoCallInFlight == \A th \in DOMAIN calls : calls[th].pc \in {"idle", "done"}

\* cls(lexer_conf, parser_conf): enter __init__
Instantiate(cls) ==
    /\ self.cls = "none"
    /\ ctor.pc = "none"
    /\ self' = [Unbuilt EXCEPT !.cls = cls]
    /\ ctor' = [NoCtor EXCEPT !.pc = "run", !.step = 1]
    /\ UNCHANGED <<lexer_conf, parser_conf, registry, lookup, engines, calls,
                   lexer_parser_state, state_setter, last_scan>>

Identifiers == {"lalr", "earley", "earley_nolex", "lalr_contextual_lexer",
                "nearley", "glr"}

\* ENGINE_DICT[identifier](lexer_conf, parser_conf)
Lookup(identifier) ==
    /\ ctor.pc # "run"
    /\ NoCallInFlight
    /\ \/ /\ identifier \in DOMAIN registry
          /\ self.cls = "none"
          /\ ctor.pc = "none"
          /\ lookup' = [identifier |-> identifier, cls |-> registry[identifier],
                        error |-> ""]
          /\ self' = [Unbuilt EXCEPT !.cls = registry[identifier]]
          /\ ctor' = [NoCtor EXCEPT !.pc = "run", !.step = 1]
       \/ /\ identifier \notin DOMAIN registry
          /\ lookup' = [identifier |-> identifier, cls |-> "none",
                        error |-> "KeyError"]
          /\ UNCHANGED <<self, ctor>>
    /\ UNCHANGED <<lexer_conf, parser_conf, registry, engines, calls,
                   lexer_parser_state, state_setter, last_scan>>

\* self.token_by_name = {t.name: t for t in lexer_conf.tokens}
Ctor_token_by_name ==
    /\ CtorAt("token_by_name")
    /\ self' = [self EXCEPT !.has_token_by_name = TRUE,
                            !.token_by_name = TokenByName(lexer_conf.tokens)]
    /\ ctor' = CtorAdvance(ctor)
    /\ UNCHANGED <<lexer_conf, parser_conf, registry, lookup, engines, calls,
                   lexer_parser_state, state_setter, last_scan>>

\* WithLexer.__init__, or the ContextualLexer built from the engine's states
Ctor_lexer ==
    /\ CtorAt("lexer")
    /\ IF self.cls = "LALR_ContextualLexer"
       THEN /\ self' = [self EXCEPT !.lexer =
                    ContextualLexer(lexer_conf.tokens,
                                    StatesToAccepts(self.parser.states_idx),
                                    lexer_conf.ignore,
                                    IF lexer_conf.postlex # "none"
                                    THEN postlex_always_accept(lexer_conf.postlex)
                                    ELSE {})]
            /\ lexer_parser_state' = 0
       ELSE /\ self' = [self EXCEPT !.lexer =
                    Lexer(lexer_conf.tokens, lexer_conf.ignore)]
            /\ UNCHANGED lexer_parser_state
    /\ ctor' = CtorAdvance(ctor)
    /\ UNCHANGED <<lexer_conf, parser_conf, registry, lookup, engines, calls,
                   state_setter, last_scan>>

\* rules = [... self._prepare_expansion(x) ... for n, x, a in parser_conf.rules]
Ctor_rules ==
    /\ CtorAt("rules")
    /\ LET r == PrepareRules(self.cls, self.token_by_name, parser_conf.rules)
       IN  ctor' = IF r.error # "" THEN CtorRaise(ctor, r.error)
                   ELSE CtorAdvance([ctor EXCEPT !.rules = r.rules])
    /\ UNCHANGED <<lexer_conf, parser_conf, registry, lookup, self, engines, calls,
                   lexer_parser_state, state_setter, last_scan>>

\* self.parser = <engine>.Parser(...)
Ctor_parser ==
    /\ CtorAt("parser")
    /\ engines' = engines + 1
    /\ IF self.cls \in {"LALR", "LALR_ContextualLexer"}
       THEN LET r == lalr_parser_Parser(parser_conf)
            IN  IF r.error # ""
                THEN /\ ctor' = CtorRaise(ctor, r.error)
                     /\ UNCHANGED self
                ELSE /\ ctor' = CtorAdvance(ctor)
                     /\ self' = [self EXCEPT !.parser = r.parser]
       ELSE /\ ctor' = CtorAdvance(ctor)
            /\ self' = [self EXCEPT !.parser =
                    IF self.cls \in {"Earley", "Earley_NoLex"}
                    THEN earley_Parser(ctor.rules, parser_conf.start)
                    ELSE nearley_Parser(ctor.rules, parser_conf.start)]
    /\ UNCHANGED <<lexer_conf, parser_conf, registry, lookup, calls,
                   lexer_parser_state, state_setter, last_scan>>

Threads == 1..NThreads
NoToken == [type |-> "", value |-> ""]
Leaf(tok) == [data |-> "", tok |-> tok, kids |-> <<>>]
Node(a, kids) == [data |-> a, tok |-> NoToken, kids |-> kids]
NoTree == [data |-> "none", tok |-> NoToken, kids |-> <<>>]
NoResult == [ok |-> FALSE, error |-> "", tree |-> NoTree]
Returned(tree) == [ok |-> TRUE, error |-> "", tree |-> tree]
Raised(e) == [ok |-> FALSE, error |-> e, tree |-> NoTree]
IdleCall == [pc |-> "idle", text |-> <<>>, entry_state |-> 0, lex_pos |-> 1, raw |-> <<>>,
             pending |-> <<>>, tokens |-> <<>>, fed |-> <<>>, next |-> 1,
             stack |-> <<>>, values |-> <<>>, lookahead |-> NoToken,
             shifted |-> 0, psteps |-> 0, res |-> <<>>, result |-> NoResult]
NoScan == [thread |-> 0, used |-> 0, setter |-> 0, top |-> 0, unshifted |-> 0]

InitCommon ==
    /\ registry = ENGINE_DICT
    /\ lookup = NoLookup
    /\ self = Unbuilt
    /\ ctor = NoCtor
    /\ engines = 0
    /\ calls = [th \in Threads |-> IdleCall]
    /\ lexer_parser_state = 0
    /\ state_setter = 0
    /\ last_scan = NoScan

(************************* rule translation and width check ****************)
InitBuild ==
    /\ lexer_conf \in BuildLexerConfs
    /\ parser_conf \in BuildParserConfs
    /\ InitCommon

NextBuild ==
    \/ \E cls \in ChartClasses : Instantiate(cls)
    \/ Ctor_token_by_name
    \/ Ctor_lexer
    \/ Ctor_rules
    \/ Ctor_parser

SpecBuild == InitBuild /\ [][NextBuild]_vars

(************************* collaborators: lexing ***************************)
Chars == {"a", "b", " "}
Texts == BSeq(Chars, MaxLen)
EndToken == [type |-> "$end", value |-> ""]

\* the token definitions a lexer tries at the current position
LexerCandidates(lexer, state) ==
    IF lexer.kind = "Lexer" THEN 1..Len(lexer.tokens)
    ELSE LET accepts == lexer.d[state] \cup lexer.ignore \cup lexer.always_accept
         IN  {i \in 1..Len(lexer.tokens) :
                 /\ lexer.tokens[i].name \in accepts
                 /\ is_terminal(lexer.tokens[i].name)
                 /\ lexer.tokens[i].name # "$end"}

\* one iteration of the lexer's scan loop at character ch
ScanChar(lexer, state, ch) ==
    IF lexer.kind = "ContextualLexer" /\ state \notin DOMAIN lexer.d
    THEN [error |-> "KeyError", skip |-> FALSE, tok |-> NoToken]
    ELSE LET hits == {i \in LexerCandidates(lexer, state) :
                         CharMatches(lexer.tokens[i].regexp, ch)}
         IN  IF hits = {}
             THEN [error |-> "UnexpectedInput", skip |-> FALSE, tok |-> NoToken]
             ELSE LET i == CHOOSE i \in hits : \A k \in hits : i <= k
                  IN  [error |-> "",
                       skip |-> lexer.tokens[i].name \in lexer.ignore,
                       tok |-> [type |-> lexer.tokens[i].name, value |-> ch]]

\* what postlex.process yields for one token of its input stream
PostlexExpand(postlex, tok) ==
    CASE postlex = "filter" -> IF tok.type = "WS" THEN <<>> ELSE <<tok>>
      [] postlex = "insert" ->
           IF tok.type = "K" THEN <<tok, [type |-> "N", value |-> ""]>> ELSE <<tok>>
      [] OTHER -> <<tok>>

\* postlex.process(stream)
RECURSIVE postlex_process(_, _)
postlex_process(postlex, stream) ==
    IF stream = <<>> THEN <<>>
    ELSE PostlexExpand(postlex, Head(stream)) \o postlex_process(postlex, Tail(stream))

(************************* collaborators: chart engines ********************)
TermMatch(marker, item) ==
    LET last == marker.items[Len(marker.items)]
    IN  CASE last.t \in {"regex", "regex.match"} -> CharMatches(last.s, item.value)
          [] OTHER -> item.type = marker.items[1].s

RECURSIVE Derive(_, _, _, _)
RECURSIVE DeriveSeq(_, _, _, _, _)
Derive(rules, sym, inp, depth) ==
    IF sym.t = "tuple"
    THEN IF Len(inp) = 1 /\ TermMatch(sym, inp[1]) THEN {Leaf(inp[1])} ELSE {}
    ELSE IF depth = 0 THEN {}
    ELSE UNION {{Node(rules[i].action.s, kids) :
                    kids \in DeriveSeq(rules, rules[i].symbols, 1, inp, depth - 1)} :
                i \in {r \in 1..Len(rules) : rules[r].name = sym.s}}
DeriveSeq(rules, syms, j, inp, depth) ==
    IF j > Len(syms) THEN (IF inp = <<>> THEN {<<>>} ELSE {})
    ELSE UNION {{<<t>> \o rest :
                    t \in Derive(rules, syms[j], SubSeq(inp, 1, k), depth),
                    rest \in DeriveSeq(rules, syms, j + 1,
                                       SubSeq(inp, k + 1, Len(inp)), depth)} :
                k \in 0..Len(inp)}

RECURSIVE SetToSeq(_)
SetToSeq(S) ==
    IF S = {} THEN <<>>
    ELSE LET x == CHOOSE x \in S : TRUE IN <<x>> \o SetToSeq(S \ {x})

\* <engine>.parse(input): every completed parse of the whole input
chart_parse(engine, inp) ==
    SetToSeq(Derive(engine.rules, PyStr(engine.start), inp, MaxDepth))

(************************* the frontends: parse ****************************)
WithLexer_lex_Twice(conf, stream) ==
    IF conf.postlex # "none"
    THEN postlex_process(conf.postlex, postlex_process(conf.postlex, stream))
    ELSE stream
\* WithLexer.lex: the stream returned for the lexer's stream
WithLexer_lex(conf, stream) ==
    IF conf.postlex # "none" THEN postlex_process(conf.postlex, stream)
    ELSE stream

\* LALR_ContextualLexer.parse: the stream handed to the parser
ContextualLexer_stream(conf, stream) ==
    IF conf.postlex # "none" THEN postlex_process(conf.postlex, stream)
    ELSE stream

StreamOf(cls, conf, stream) ==
    IF cls = "LALR_ContextualLexer" THEN ContextualLexer_stream(conf, stream)
    ELSE WithLexer_lex(conf, stream)

Materializes_None(cls) == FALSE
Materializes_All(cls) == TRUE
\* does the LALR frontend's parse build list(...) of the token stream before
\* it calls the engine (LALR.parse does, LALR_ContextualLexer.parse does not)
Materializes(cls) == cls = "LALR"

\* does parse hand the lexer's set_parser_state to the engine
PassesSetState(cls) == cls = "LALR_ContextualLexer"

ExactlyOne_NonEmpty(res) == Len(res) >= 1
\* assert len(res) == 1
ExactlyOne(res) == Len(res) = 1

Top(stack) == IF stack = <<>> THEN 0 ELSE stack[Len(stack)]
CharItems(text) == [i \in 1..Len(text) |-> [type |-> "", value |-> text[i]]]

Done(c, result) == [c EXCEPT !.pc = "done", !.result = result]

\* the effect of one step of a call: the call afterwards, the lexer's
\* parser_state field afterwards, whether set_parser_state was called and
\* whether the lexer scanned
Effect(c, ls, set, scanned) ==
    [call |-> c, ls |-> ls, set |-> set, scanned |-> scanned]

\* frontend.parse(text): the call on entry; entry_state remembers what the
\* contextual lexer's parser_state field held at that moment
StartCall(text, ls) ==
    [IdleCall EXCEPT !.text = text,
                     !.entry_state = ls,
                     !.pc = IF self.cls \in NoLexClasses THEN "engine"
                            ELSE IF self.cls \in ChartClasses THEN "lex"
                            ELSE IF Materializes(self.cls) THEN "lex"
                            ELSE "parse_init"]

\* list(stream): one more token of the stream, or its end
LexStepFn(c, ls) ==
    IF c.lex_pos > Len(c.text)
    THEN Effect([c EXCEPT !.tokens = StreamOf(self.cls, lexer_conf, c.raw),
                          !.pc = IF self.cls \in ChartClasses THEN "engine"
                                 ELSE "parse_init"],
                ls, FALSE, FALSE)
    ELSE LET r == ScanChar(self.lexer, ls, c.text[c.lex_pos])
         IN  IF r.error # "" THEN Effect(Done(c, Raised(r.error)), ls, FALSE, TRUE)
             ELSE Effect([c EXCEPT !.lex_pos = c.lex_pos + 1,
                                   !.raw = IF r.skip THEN c.raw
                                           ELSE Append(c.raw, r.tok)],
                         ls, FALSE, TRUE)

\* lalr_parser.Parser.parse: set up the stacks, report the initial state
ParserInitFn(c, ls) ==
    Effect([c EXCEPT !.stack = <<init_state_idx>>, !.pc = "pull"],
           IF PassesSetState(self.cls) THEN init_state_idx ELSE ls,
           PassesSetState(self.cls), FALSE)

\* next(stream) has to run the lexer generator
CanScan(c) ==
    /\ c.pc = "pull"
    /\ ~Materializes(self.cls)
    /\ c.pending = <<>>
    /\ c.lex_pos <= Len(c.text)

\* next(stream) reaches the lexer generator: scan one token
ScanFn(c, ls) ==
    LET r == ScanChar(self.lexer, ls, c.text[c.lex_pos])
        before == StreamOf(self.cls, lexer_conf, c.raw)
        after == StreamOf(self.cls, lexer_conf, Append(c.raw, r.tok))
    IN  IF r.error # "" THEN Effect(Done(c, Raised(r.error)), ls, FALSE, TRUE)
        ELSE IF r.skip THEN Effect([c EXCEPT !.lex_pos = c.lex_pos + 1],
                                   ls, FALSE, TRUE)
        ELSE Effect([c EXCEPT !.lex_pos = c.lex_pos + 1,
                              !.raw = Append(c.raw, r.tok),
                              !.pending = SubSeq(after, Len(before) + 1, Len(after))],
                    ls, FALSE, TRUE)

\* next(stream) returns a token, or the stream is exhausted
PullFn(c, ls) ==
    IF Materializes(self.cls)
    THEN IF c.next > Len(c.tokens)
         THEN Effect([c EXCEPT !.lookahead = EndToken, !.pc = "act"],
                     ls, FALSE, FALSE)
         ELSE Effect([c EXCEPT !.lookahead = c.tokens[c.next],
                               !.next = c.next + 1,
                               !.fed = Append(c.fed, c.tokens[c.next]),
                               !.pc = "act"],
                     ls, FALSE, FALSE)
    ELSE IF c.pending = <<>>
         THEN Effect([c EXCEPT !.lookahead = EndToken, !.pc = "act"],
                     ls, FALSE, FALSE)
         ELSE Effect([c EXCEPT !.lookahead = Head(c.pending),
                               !.pending = Tail(c.pending),
                               !.fed = Append(c.fed, Head(c.pending)),
                               !.pc = "act"],
                     ls, FALSE, FALSE)

\* the LALR loop: one shift, reduce, accept or error on the lookahead
ActFn(c, ls) ==
    LET table == self.parser.states_idx[Top(c.stack)]
        key == c.lookahead.type
    IN  IF key \notin DOMAIN table
        THEN Effect(Done(c, Raised("UnexpectedToken")), ls, FALSE, FALSE)
        ELSE LET a == table[key] IN
             CASE a.act = "shift" ->
                    Effect([c EXCEPT !.stack = Append(c.stack, a.arg),
                                     !.values = Append(c.values, Leaf(c.lookahead)),
                                     !.shifted = c.shifted + 1,
                                     !.psteps = c.psteps + 1,
                                     !.lookahead = NoToken,
                                     !.pc = "pull"],
                           IF PassesSetState(self.cls) THEN a.arg ELSE ls,
                           PassesSetState(self.cls), FALSE)
               [] a.act = "reduce" ->
                    LET rule == self.parser.rules[a.arg]
                        n == Len(c.stack) - a.size
                        m == Len(c.values) - a.size
                        below == SubSeq(c.stack, 1, n)
                        goto == self.parser.states_idx[Top(below)][rule.name].arg
                    IN  Effect([c EXCEPT
                                  !.stack = Append(below, goto),
                                  !.values = Append(SubSeq(c.values, 1, m),
                                        Node(rule.action,
                                             SubSeq(c.values, m + 1, Len(c.values)))),
                                  !.psteps = c.psteps + 1],
                               ls, FALSE, FALSE)
               [] a.act = "accept" ->
                    Effect(Done(c, Returned(c.values[Len(c.values)])),
                           ls, FALSE, FALSE)

\* res = self.parser.parse(tokens) / self.parser.parse(text)
EngineFn(c, ls) ==
    Effect([c EXCEPT !.fed = IF self.cls \in NoLexClasses THEN <<>> ELSE c.tokens,
                     !.res = chart_parse(self.parser,
                               IF self.cls \in NoLexClasses THEN CharItems(c.text)
                               ELSE c.tokens),
                     !.psteps = 1,
                     !.pc = "check"],
           ls, FALSE, FALSE)

\* assert len(res) == 1, 'Ambiguious Parse! Not handled yet' ; return res[0]
CheckFn(c, ls) ==
    Effect(Done(c, IF ExactlyOne(c.res) THEN Returned(c.res[1])
                   ELSE Raised("AssertionError")),
           ls, FALSE, FALSE)

\* the next step of a call that is in flight
Step(c, ls) ==
    CASE c.pc = "lex" -> LexStepFn(c, ls)
      [] c.pc = "parse_init" -> ParserInitFn(c, ls)
      [] c.pc = "pull" -> IF CanScan(c) THEN ScanFn(c, ls) ELSE PullFn(c, ls)
      [] c.pc = "act" -> ActFn(c, ls)
      [] c.pc = "engine" -> EngineFn(c, ls)
      [] c.pc = "check" -> CheckFn(c, ls)

ScanRecord(th, c) ==
    [thread |-> th, used |-> lexer_parser_state, setter |-> state_setter,
     top |-> Top(c.stack),
     unshifted |-> Len(StreamOf(self.cls, lexer_conf, c.raw)) - c.shifted]

\* thread th takes the step whose effect is e
Apply(th, e) ==
    /\ calls' = [calls EXCEPT ![th] = e.call]
    /\ lexer_parser_state' = e.ls
    /\ state_setter' = IF e.set THEN th ELSE state_setter
    /\ last_scan' = IF e.scanned /\ self.lexer.kind = "ContextualLexer"
                    THEN ScanRecord(th, calls[th]) ELSE last_scan
    /\ UNCHANGED <<lexer_conf, parser_conf, registry, lookup, self, ctor, engines>>

BeginParse(th, text, sequential) ==
    /\ ctor.pc = "done"
    /\ IF sequential THEN NoCallInFlight ELSE calls[th].pc = "idle"
    /\ calls' = [calls EXCEPT ![th] = StartCall(text, lexer_parser_state)]
    /\ UNCHANGED <<lexer_conf, parser_conf, registry, lookup, self, ctor, engines,
                   lexer_parser_state, state_setter, last_scan>>

LexStep(th) ==
    /\ calls[th].pc = "lex"
    /\ Apply(th, LexStepFn(calls[th], lexer_parser_state))

ParserInit(th) ==
    /\ calls[th].pc = "parse_init"
    /\ Apply(th, ParserInitFn(calls[th], lexer_parser_state))

Scan(th) ==
    /\ CanScan(calls[th])
    /\ Apply(th, ScanFn(calls[th], lexer_parser_state))

Pull(th) ==
    /\ calls[th].pc = "pull"
    /\ ~CanScan(calls[th])
    /\ Apply(th, PullFn(calls[th], lexer_parser_state))

Act(th) ==
    /\ calls[th].pc = "act"
    /\ Apply(th, ActFn(calls[th], lexer_parser_state))

Engine(th) ==
    /\ calls[th].pc = "engine"
    /\ Apply(th, EngineFn(calls[th], lexer_parser_state))

Check(th) ==
    /\ calls[th].pc = "check"
    /\ Apply(th, CheckFn(calls[th], lexer_parser_state))

(************************* sequential use **********************************)
Init ==
    /\ lexer_conf \in ParseLexerConfs
    /\ parser_conf \in ParseParserConfs
    /\ InitCommon

Next ==
    \/ \E identifier \in Identifiers : Lookup(identifier)
    \/ \E cls \in {"Nearley", "Nearley_NoLex"} : Instantiate(cls)
    \/ Ctor_token_by_name
    \/ Ctor_lexer
    \/ Ctor_rules
    \/ Ctor_parser
    \/ \E th \in {1}, text \in Texts : BeginParse(th, text, TRUE)
    \/ \E th \in Threads : LexStep(th)
    \/ \E th \in Threads : ParserInit(th)
    \/ \E th \in Threads : Scan(th)
    \/ \E th \in Threads : Pull(th)
    \/ \E th \in Threads : Act(th)
    \/ \E th \in Threads : Engine(th)
    \/ \E th \in Threads : Check(th)

Spec == Init /\ [][Next]_vars

(************************* concurrent use of one instance ******************)
InitConc ==
    /\ lexer_conf \in ParseLexerConfs
    /\ parser_conf = [rules |-> KeywordRules, start |-> "stmt"]
    /\ InitCommon

NextConc ==
    \/ Lookup("lalr_contextual_lexer")
    \/ Ctor_lexer
    \/ Ctor_parser
    \/ \E th \in Threads, text \in Texts : BeginParse(th, text, FALSE)
    \/ \E th \in Threads : ParserInit(th)
    \/ \E th \in Threads : Scan(th)
    \/ \E th \in Threads : Pull(th)
    \/ \E th \in Threads : Act(th)

SpecConc == InitConc /\ [][NextConc]_vars

(************************* properties **************************************)
IsPrefix(p, q) == Len(p) <= Len(q) /\ SubSeq(q, 1, Len(p)) = p
RegexpOf(t) == TokenByName(lexer_conf.tokens)[t]

\* C1: a chart frontend returns a tree exactly when its engine returned one
\* completed parse, and then that parse; with zero or several parses the call
\* fails with the assertion error and returns no tree.
C1_ExactlyOneParse ==
    \A th \in Threads :
        LET c == calls[th] IN
        (self.cls \in ChartClasses /\ c.pc = "done") =>
            /\ c.result.ok <=> (c.psteps = 1 /\ Len(c.res) = 1)
            /\ c.result.ok => c.result.tree = c.res[1]
            /\ (c.psteps = 1 /\ Len(c.res) # 1) =>
                    c.result = Raised("AssertionError")

C1_Witness ==
    \E th \in Threads :
        /\ self.cls \in ChartClasses
        /\ calls[th].pc = "done"
        /\ Len(calls[th].res) = 2
        /\ calls[th].result = Raised("AssertionError")

\* the regular expressions of the configurations that match exactly one
\* character; the others match zero, two, a variable or an unbounded number
OneCharRegexps == {"a", "b", "[ab]", ".", "(a)", "^a"}
WideTerminals ==
    {t \in UsedTerminals(parser_conf.rules) : RegexpOf(t) \notin OneCharRegexps}

\* C2: a scannerless frontend is constructed only if every terminal used in a
\* rule has a one-character pattern; otherwise __init__ raises GrammarError
\* before the chart engine is constructed and no parser is set.
C2_WidthOneOnly ==
    self.cls \in NoLexClasses =>
        /\ ctor.pc = "done" => WideTerminals = {}
        /\ WideTerminals # {} =>
              /\ self.parser = NoEngine
              /\ engines = 0
              /\ ctor.pc \in {"done", "failed"} =>
                    (ctor.pc = "failed" /\ ctor.error = "GrammarError")

C2_Witness ==
    /\ self.cls \in NoLexClasses
    /\ ctor.pc = "failed"
    /\ ctor.error = "GrammarError"
    /\ \E t \in WideTerminals : RegexpOf(t) = "a+"

FourIdentifiers == {"lalr", "earley", "earley_nolex", "lalr_contextual_lexer"}
ExpectedFrontend(identifier) ==
    CASE identifier = "lalr" -> <<"LALR", "lalr_parser", "Lexer">>
      [] identifier = "earley" -> <<"Earley", "earley", "Lexer">>
      [] identifier = "earley_nolex" -> <<"Earley_NoLex", "earley", "none">>
      [] identifier = "lalr_contextual_lexer" ->
           <<"LALR_ContextualLexer", "lalr_parser", "ContextualLexer">>

\* C3: the registry maps the four identifiers to the frontends with the
\* matching engine and lexer; a lookup of any other identifier fails and
\* leaves registry, instance and engines as they were.
C3_Registry ==
    /\ [](/\ DOMAIN registry = FourIdentifiers
          /\ \A id \in FourIdentifiers : registry[id] = ExpectedFrontend(id)[1]
          /\ (lookup.identifier # "" /\ lookup.identifier \notin FourIdentifiers)
                => (lookup.error = "KeyError" /\ lookup.cls = "none")
          /\ (lookup.identifier \in FourIdentifiers) =>
                /\ lookup.error = ""
                /\ self.cls = ExpectedFrontend(lookup.identifier)[1]
                /\ ctor.pc = "done" =>
                      <<self.cls, self.parser.engine, self.lexer.kind>>
                          = ExpectedFrontend(lookup.identifier))
    /\ [][(lookup' # lookup /\ lookup'.error = "KeyError") =>
            /\ registry' = registry
            /\ self' = self
            /\ ctor' = ctor
            /\ engines' = engines
            /\ calls' = calls]_vars

C3_Witness ==
    /\ lookup.error = "KeyError"
    /\ lookup.identifier = "glr"
    /\ ctor.pc = "done"
    /\ self.cls = "Nearley"

\* C4: every token of the contextual frontend is scanned with the state the
\* parser reported last, which is the top of its stack, and only after the
\* parser has shifted every token the stream produced before.
C4_LexerSeesCurrentState ==
    last_scan.thread # 0 =>
        /\ last_scan.used >= 1
        /\ last_scan.used = last_scan.top
        /\ last_scan.unshifted = 0

C4_Witness ==
    /\ self.cls = "LALR_ContextualLexer"
    /\ lexer_conf.postlex = "filter"
    /\ last_scan.used = 2
    /\ \E th \in Threads : calls[th].pc = "done" /\ calls[th].result.ok
                           /\ Len(calls[th].raw) = 2

RunFuel == 40

\* the outcome of a call that runs alone, from the lexer state ls
RECURSIVE Run(_, _, _)
Run(c, ls, fuel) ==
    IF c.pc = "done" \/ fuel = 0 THEN c.result
    ELSE LET e == Step(c, ls) IN Run(e.call, e.ls, fuel - 1)

\* the outcome of parse(text) as the first call on the new instance
FirstOutcome(text) == Run(StartCall(text, 0), 0, RunFuel)

\* C5: every parse call has the outcome that the same text has as the first
\* call on the instance, whatever calls ran before it and whatever they left
\* in the contextual lexer's parser_state.
C5_SameOutcome ==
    \A th \in Threads :
        calls[th].pc = "done" => calls[th].result = FirstOutcome(calls[th].text)

C5_Witness ==
    /\ self.cls = "LALR_ContextualLexer"
    /\ \E th \in Threads : /\ calls[th].pc = "done"
                           /\ calls[th].text = <<"a", "a">>
                           /\ calls[th].entry_state = 2
                           /\ calls[th].result.ok

\* C6: under every interleaving each call returns what it returns when run
\* alone, and the state a thread's scan uses was passed to the lexer by that
\* thread.
C6_CallLocalState ==
    /\ \A th \in Threads :
          calls[th].pc = "done" => calls[th].result = FirstOutcome(calls[th].text)
    /\ last_scan.thread # 0 => last_scan.setter = last_scan.thread

\* C7: the contextual lexer is built after the engine, from one candidate set
\* per automaton state, the keys of that state's transitions; it stays so.
C7_CandidateSets ==
    (self.cls = "LALR_ContextualLexer" /\ self.lexer.kind # "none") =>
        /\ self.parser.engine = "lalr_parser"
        /\ engines = 1
        /\ DOMAIN self.lexer.d = DOMAIN self.parser.states_idx
        /\ \A idx \in DOMAIN self.parser.states_idx :
              self.lexer.d[idx] = DOMAIN self.parser.states_idx[idx]

C7_Witness ==
    /\ self.cls = "LALR_ContextualLexer"
    /\ self.lexer.kind = "ContextualLexer"
    /\ \E th \in Threads : /\ calls[th].pc = "done"
                           /\ calls[th].result.ok
                           /\ calls[th].entry_state = 2

ExpectedStream(raw) ==
    IF lexer_conf.postlex # "none" THEN postlex_process(lexer_conf.postlex, raw)
    ELSE raw

\* C8: the engine of a lexer-backed frontend is handed the post-lex stage's
\* output for the raw stream, or the raw stream when no stage is configured.
C8_PostlexOnce ==
    \A th \in Threads :
        LET c == calls[th] IN
        CASE self.cls \in WithLexerClasses ->
               IF c.pc \notin {"idle", "lex"} /\ c.lex_pos > Len(c.text)
               THEN /\ c.tokens = ExpectedStream(c.raw)
                    /\ Len(c.raw) = Len(c.text)
                    /\ IsPrefix(c.fed, c.tokens)
                    /\ (self.cls \in ChartClasses /\ c.psteps = 1) => c.fed = c.tokens
               ELSE c.fed = <<>>
          [] self.cls = "LALR_ContextualLexer" ->
               c.fed \o c.pending = ExpectedStream(c.raw)
          [] OTHER -> TRUE

C8_Witness ==
    /\ self.cls = "LALR"
    /\ lexer_conf.postlex = "insert"
    /\ \E th \in Threads :
          /\ calls[th].pc = "done"
          /\ calls[th].result.ok
          /\ Len(calls[th].raw) = 1
          /\ Len(calls[th].fed) = 2

\* C9: the LALR frontend's engine starts only when the whole text is lexed
\* and the token list is built; a lexing error precedes every parser step.
C9_LexBeforeParse ==
    \A th \in Threads :
        LET c == calls[th] IN
        self.cls = "LALR" =>
            /\ (c.stack # <<>> \/ c.psteps > 0) =>
                  /\ c.lex_pos = Len(c.text) + 1
                  /\ c.tokens = ExpectedStream(c.raw)
            /\ c.result.error = "UnexpectedInput" =>
                  (c.stack = <<>> /\ c.psteps = 0 /\ c.fed = <<>>)

C9_Witness ==
    /\ self.cls = "LALR"
    /\ \E th \in Threads :
          /\ calls[th].pc = "done"
          /\ calls[th].result.error = "UnexpectedInput"
          /\ calls[th].lex_pos = 2
          /\ calls[th].psteps = 0

TranslatedRules == self.parser.rules

\* C10 as stated: in Earley and Nearley alike a terminal becomes a
\* single-element marker and the action identifier is carried over.
C10_SingleElementMarker ==
    (self.cls \in {"Earley", "Nearley"} /\ ctor.pc = "done") =>
        /\ Len(TranslatedRules) = Len(parser_conf.rules)
        /\ \A i \in 1..Len(parser_conf.rules) :
              LET r == parser_conf.rules[i]
                  t == TranslatedRules[i]
              IN  /\ t.name = r.name
                  /\ t.action = PyStr(r.action)
                  /\ Len(t.symbols) = Len(r.expansion)
                  /\ \A j \in 1..Len(r.expansion) :
                        IF is_terminal(r.expansion[j])
                        THEN t.symbols[j] = PyTuple(<<PyStr(r.expansion[j])>>)
                        ELSE t.symbols[j] = PyStr(r.expansion[j])

\* C10 amended: the marker is the tuple (sym,) in Earley and the pair
\* (sym, None) in Nearley; Earley carries the action identifier over, Nearley
\* stores the callback attribute of that name.
C10_MarkerPerEngine ==
    (self.cls \in {"Earley", "Nearley"} /\ ctor.pc = "done") =>
        /\ Len(TranslatedRules) = Len(parser_conf.rules)
        /\ \A i \in 1..Len(parser_conf.rules) :
              LET r == parser_conf.rules[i]
                  t == TranslatedRules[i]
              IN  /\ t.name = r.name
                  /\ t.action = IF self.cls = "Earley" THEN PyStr(r.action)
                                ELSE PyCallable(r.action)
                  /\ Len(t.symbols) = Len(r.expansion)
                  /\ \A j \in 1..Len(r.expansion) :
                        IF is_terminal(r.expansion[j])
                        THEN t.symbols[j] =
                                IF self.cls = "Earley"
                                THEN PyTuple(<<PyStr(r.expansion[j])>>)
                                ELSE PyTuple(<<PyStr(r.expansion[j]), PyNone>>)
                        ELSE t.symbols[j] = PyStr(r.expansion[j])

C10_Witness ==
    /\ self.cls = "Nearley"
    /\ ctor.pc = "done"
    /\ Len(TranslatedRules) = 1
    /\ TranslatedRules[1].symbols = <<PyStr("e"), PyTuple(<<PyStr("A"), PyNone>>)>>

====
